---- MODULE Spec2Model ----
(***************************************************************************)
(* epb-prompt-git: one run of the prompt program.  main() resolves a path, *)
(* get_prompt() reads `git status --porcelain=v2 --branch --show-stash`    *)
(* line by line, classifies the repository into one repo::Prompt variant   *)
(* and main() prints it (or the error marker).                             *)
(*                                                                         *)
(* Text is modelled as a sequence of components: a name "origin/main" is   *)
(* <<"origin", "main">>, so that split_once('/') and trim_start_matches    *)
(* are computed; an object id is a one-component text.                     *)
(***************************************************************************)
EXTENDS Integers, Sequences, FiniteSets

\* ---------------------------------------------------------------- bounds
\* number of entry lines (?, !, 1, 2, u) of one status output
MaxEntries == 2
\* width of usize in bits (scaled down from 64)
WordBits == 2

RECURSIVE Pow2(_)
Pow2(n) == IF n = 0 THEN 1 ELSE 2 * Pow2(n - 1)
WordModulus == Pow2(WordBits)
WordMax == WordModulus - 1

\* ---------------------------------------------------------------- Option / Result
None == [some |-> FALSE]
Some(x) == [some |-> TRUE, val |-> x]

Ok(p) == [tag |-> "Ok", val |-> p]
Err(cause) == [tag |-> "Err", cause |-> cause]
Panic(cause) == [tag |-> "Panic", cause |-> cause]
Pending == [tag |-> "Pending"]

\* ---------------------------------------------------------------- repo::Change, repo::Changes
Add == 0
Mod == 1
Del == 2
Ren == 3
Typ == 4
Change == {Add, Mod, Del, Ren, Typ}

ChangesNew == [k \in Change |-> 0]

any(changes) == \E k \in Change : changes[k] # 0

Incr(changes, k) == [changes EXCEPT ![k] = @ + 1]

\* git2::Status: the bit of each kind on the index side and on the working-tree side
\* (change.rs:21-45; the working tree has TYPECHANGE before RENAMED), IGNORED, CONFLICTED
StatusCurrent == 0
StatusIndex(k) == CASE k = Add -> 1 [] k = Mod -> 2 [] k = Del -> 4 [] k = Ren -> 8 [] k = Typ -> 16
StatusWt(k) ==
    CASE k = Add -> 128 [] k = Mod -> 256 [] k = Del -> 512 [] k = Typ -> 1024 [] k = Ren -> 2048
StatusIgnored == 16384
StatusConflicted == 32768

\* the status libgit2 reports for an entry with these kinds on its two sides; a
\* conflicted entry has the status CONFLICTED alone
StatusOf(x, y, conflicted) ==
    IF conflicted THEN StatusConflicted
    ELSE (IF x.some THEN StatusIndex(x.val) ELSE 0) + (IF y.some THEN StatusWt(y.val) ELSE 0)

\* change.rs:20-48: Change::new, (working_tree, index) of a status
ChangeNew(bits) ==
    LET idx == bits % 32
        wt == (bits \div 128) % 32
    IN  <<CASE wt = 1 -> Some(Add) [] wt = 2 -> Some(Mod) [] wt = 4 -> Some(Del)
            [] wt = 8 -> Some(Typ) [] wt = 16 -> Some(Ren) [] OTHER -> None,
          CASE idx = 1 -> Some(Add) [] idx = 2 -> Some(Mod) [] idx = 4 -> Some(Del)
            [] idx = 8 -> Some(Ren) [] idx = 16 -> Some(Typ) [] OTHER -> None>>

\* util.rs:37: the counters of get_local_changes
LocalChangesNew == [working_tree |-> ChangesNew, index |-> ChangesNew, conflicts |-> 0]

\* util.rs:40-54: the body of the loop of get_local_changes for one status
GetLocalChanges(acc, bits) ==
    IF bits \in {StatusCurrent, StatusIgnored} THEN acc
    ELSE LET change == ChangeNew(bits)
         IN  [working_tree |-> IF change[1].some THEN Incr(acc.working_tree, change[1].val)
                               ELSE acc.working_tree,
              index |-> IF change[2].some THEN Incr(acc.index, change[2].val) ELSE acc.index,
              conflicts |-> acc.conflicts + (IF (bits \div StatusConflicted) % 2 = 1 THEN 1 ELSE 0)]

\* ---------------------------------------------------------------- text helpers
\* str::split_once('/') on a name: None when the name holds no '/'
SplitOnce(name) == IF Len(name) < 2 THEN None ELSE Some(<<<<Head(name)>>, Tail(name)>>)

\* a decimal field of a header line; str::parse::<usize>() accepts digits that fit usize
Digits(n) == [digits |-> TRUE, value |-> n]
NotDigits == [digits |-> FALSE, value |-> 0]
ParseUsize(field) == IF field.digits /\ field.value <= WordMax THEN Some(field.value) ELSE None

\* util::parse_xy_line(line, prefix): the two status letters of an entry line of that kind
ParseXYLine(line, prefix) == IF line.prefix = prefix THEN Some(line.xy) ELSE None

\* ---------------------------------------------------------------- inputs
\* what `git status --porcelain=v2 --branch --show-stash` can print
OidFields == {<<"(initial)">>, <<"c1">>}
HeadFields == {<<"(detached)">>, <<"main">>}
\* the second upstream is a local branch set as upstream: its short name has no '/'
UpstreamFields == {<<"origin", "main">>, <<"main">>}
AheadFields == {Digits(0), Digits(WordMax)}
BehindFields == {Digits(0), Digits(1), NotDigits}
\* the text after "# branch.ab +", cut at " -": two fields, or one when " -" is missing
AbFields == {<<a, b>> : a \in AheadFields, b \in BehindFields} \cup {<<Digits(1)>>}
StashFields == {Digits(0), Digits(1), NotDigits}

\* "1 XY": ordinary changed entries, X the index side and Y the working-tree side
ChangedLines ==
    {[prefix |-> "1", xy |-> xy] : xy \in {<<"A", ".">>, <<"M", ".">>, <<"D", ".">>, <<"T", ".">>,
        <<".", "A">>, <<".", "M">>, <<".", "D">>, <<".", "T">>, <<"M", "M">>}}
\* "2 XY": renamed or copied entries carry R or C on at least one side
RenamedLines ==
    {[prefix |-> "2", xy |-> xy] : xy \in {<<"R", ".">>, <<".", "R">>, <<"R", "M">>, <<"R", "D">>,
        <<"C", ".">>, <<".", "C">>}}
\* "u XY": unmerged entries
UnmergedLines == {[prefix |-> "u", xy |-> xy] : xy \in {<<"U", "U">>, <<"A", "A">>}}
UntrackedLine == [prefix |-> "?", xy |-> <<"?", "?">>]
IgnoredLine == [prefix |-> "!", xy |-> <<"!", "!">>]

\* the kinds an entry line stands for on the index side and on the working-tree side
\* (git-status letters: A added, M modified, D deleted, R renamed, T type changed;
\* "." unchanged, C copied and the U of unmerged lines stand for no kind; untracked
\* is an addition to the working tree)
LetterKind(letter) ==
    CASE letter = "A" -> Some(Add)
      [] letter = "M" -> Some(Mod)
      [] letter = "D" -> Some(Del)
      [] letter = "R" -> Some(Ren)
      [] letter = "T" -> Some(Typ)
      [] OTHER -> None

\* ---------------------------------------------------------------- state
VARIABLES
    pc,             \* position in main / get_prompt
    is_repo,        \* environment: a repository exists at or above the path
    commit,         \* Option: "# branch.oid"
    local,          \* Option: "# branch.head"
    remote,         \* Option: "# branch.upstream"
    ahead,          \* "# branch.ab"
    behind,
    conflicts,      \* number of "u " lines
    stash,          \* "# stash"
    ignored,        \* number of "! " lines
    working_tree,   \* Changes
    index,          \* Changes
    local_name,     \* the `local` of main.rs:167 (branch name, or commit when detached)
    remote_diverge, \* Option<(RemoteBranch, Option<Divergence>)>
    result,         \* what get_prompt returned: Ok(prompt), Err, or a panic
    consulted,      \* what conflict resolution has read: show-ref, MERGE_HEAD, REBASE_HEAD
    markers,        \* environment: .git/MERGE_HEAD and .git/REBASE_HEAD as conflict
                    \* resolution finds them
    ends,           \* Option: the `(kind, source, target)` of main.rs:200
    stdout,         \* lines printed by main
    exit_code,      \* Option: the process's exit code
    seen            \* history: the entry lines read so far, counted by what they stand for

vars == <<pc, is_repo, commit, local, remote, ahead, behind, conflicts, stash, ignored,
          working_tree, index, local_name, remote_diverge, result, consulted, markers,
          ends, stdout, exit_code, seen>>

header == <<commit, local, remote, ahead, behind, stash>>
counts == <<working_tree, index, conflicts, ignored>>
resolution == <<consulted, markers, ends>>
later == <<local_name, remote_diverge, resolution, stdout, exit_code>>

SeenNew ==
    [entries |-> 0, unmerged |-> 0, index |-> ChangesNew, working_tree |-> ChangesNew,
     library |-> LocalChangesNew]

\* the history after one more entry line; `library` is what util::get_local_changes has
\* counted for the same entries, handed to it as libgit2 reports them
See(line) ==
    LET x == LetterKind(line.xy[1])
        y == IF line.prefix = "?" THEN Some(Add) ELSE LetterKind(line.xy[2])
        u == line.prefix = "u"
    IN  [entries |-> seen.entries + 1,
         unmerged |-> seen.unmerged + (IF u THEN 1 ELSE 0),
         index |-> IF x.some /\ ~u THEN Incr(seen.index, x.val) ELSE seen.index,
         working_tree |-> IF y.some /\ ~u THEN Incr(seen.working_tree, y.val) ELSE seen.working_tree,
         library |-> GetLocalChanges(seen.library,
                         IF line.prefix = "!" THEN StatusIgnored ELSE StatusOf(x, y, u))]

Init ==
    /\ pc = "start"
    /\ is_repo \in BOOLEAN
    /\ commit = None
    /\ local = None
    /\ remote = None
    /\ ahead = 0
    /\ behind = 0
    /\ conflicts = 0
    /\ stash = 0
    /\ ignored = 0
    /\ working_tree = ChangesNew
    /\ index = ChangesNew
    /\ local_name = <<>>
    /\ remote_diverge = None
    /\ result = Pending
    /\ consulted = {}
    /\ markers = None
    /\ ends = None
    /\ stdout = <<>>
    /\ exit_code = None
    /\ seen = SeenNew

\* get_prompt returns early (`?`) or unwinds (a panic): main sees the outcome.
\* An Err or Panic carries the place it comes from: "git status" (main.rs:26),
\* "ab" (:57), "valid count" (:59-60), "stash" (:67), "upstream" (:184),
\* "overflow" (:187), "git show-ref" (:195), "io" (:201, :205),
\* "not yet implemented" (:210), "<id> <ref>" (:218)
Return(outcome) ==
    /\ result' = outcome
    /\ pc' = "returned"

\* main.rs:17-28: run git status; a spawn failure is returned with `?`
Spawn ==
    /\ pc = "start"
    /\ \E spawned \in BOOLEAN :
         IF spawned
         THEN pc' = "lines" /\ UNCHANGED result
         ELSE Return(Err("git status"))
    /\ UNCHANGED <<is_repo, header, counts, later, seen>>

\* the loop has a next line: git prints lines only inside a repository
MoreLines == pc = "lines" /\ is_repo
MoreEntries == MoreLines /\ seen.entries < MaxEntries

\* main.rs:41-44
ReadBranchOid ==
    /\ MoreLines
    /\ \E oid \in OidFields :
         commit' = IF oid # <<"(initial)">> THEN Some(oid) ELSE None
    /\ UNCHANGED <<pc, is_repo, local, remote, ahead, behind, stash, counts, later, result, seen>>

\* main.rs:46-49
ReadBranchHead ==
    /\ MoreLines
    /\ \E name \in HeadFields :
         local' = IF name # <<"(detached)">> THEN Some(name) ELSE None
    /\ UNCHANGED <<pc, is_repo, commit, remote, ahead, behind, stash, counts, later, result, seen>>

\* main.rs:51-54
ReadBranchUpstream ==
    /\ MoreLines
    /\ \E upstream \in UpstreamFields :
         remote' = Some(upstream)
    /\ UNCHANGED <<pc, is_repo, commit, local, ahead, behind, stash, counts, later, result, seen>>

\* main.rs:56-62: unwrap and expect panic on a line that is not "+<n> -<m>"
ReadBranchAb ==
    /\ MoreLines
    /\ \E rest \in AbFields :
         IF Len(rest) < 2
         THEN Return(Panic("ab")) /\ UNCHANGED <<ahead, behind>>
         ELSE LET a == ParseUsize(rest[1])
                  b == ParseUsize(rest[2])
              IN  IF a.some /\ b.some
                  THEN ahead' = a.val /\ behind' = b.val /\ UNCHANGED <<pc, result>>
                  ELSE Return(Panic("valid count")) /\ UNCHANGED <<ahead, behind>>
    /\ UNCHANGED <<is_repo, commit, local, remote, stash, counts, later, seen>>

\* main.rs:66-69: a stash count that does not parse is returned with `?`
ReadStash ==
    /\ MoreLines
    /\ \E rest \in StashFields :
         LET n == ParseUsize(rest)
         IN  IF n.some
             THEN stash' = n.val /\ UNCHANGED <<pc, result>>
             ELSE Return(Err("stash")) /\ UNCHANGED stash
    /\ UNCHANGED <<is_repo, commit, local, remote, ahead, behind, counts, later, seen>>

\* `changes[kind] += 1` for the kind a match arm names, nothing for the other arms
Count(changes, kind) == IF kind.some THEN Incr(changes, kind.val) ELSE changes

\* main.rs:95-102: the arms of `match x` of a "1 " line
ChangedIndex(x) ==
    CASE x = "." -> None
      [] x = "A" -> Some(Add)
      [] x = "M" -> Some(Mod)
      [] x = "D" -> Some(Del)
      [] x = "T" -> Some(Typ)
      [] OTHER -> None

\* main.rs:104-111: the arms of `match y` of a "1 " line
ChangedWorkingTree(y) ==
    CASE y = "." -> None
      [] y = "A" -> Some(Add)
      [] y = "M" -> Some(Mod)
      [] y = "D" -> Some(Del)
      [] y = "T" -> Some(Typ)
      [] OTHER -> None

\* main.rs:121-126: the arms of `match x` of a "2 " line
RenamedIndex(x) ==
    CASE x = "." -> None
      [] x = "R" -> Some(Ren)
      [] x = "C" -> None
      [] OTHER -> None

\* main.rs:128-133: the arms of `match y` of a "2 " line
RenamedWorkingTree(y) ==
    CASE y = "." -> None
      [] y = "R" -> Some(Ren)
      [] y = "C" -> None
      [] OTHER -> None

\* main.rs:72-75
ReadUntracked ==
    /\ MoreEntries
    /\ working_tree' = Incr(working_tree, Add)
    /\ seen' = See(UntrackedLine)
    /\ UNCHANGED <<pc, is_repo, header, index, conflicts, ignored, later, result>>

\* main.rs:78-81
ReadIgnored ==
    /\ MoreEntries
    /\ ignored' = ignored + 1
    /\ seen' = See(IgnoredLine)
    /\ UNCHANGED <<pc, is_repo, header, working_tree, index, conflicts, later, result>>

\* main.rs:94-114
ReadChanged ==
    /\ MoreEntries
    /\ \E line \in ChangedLines :
         LET xy == ParseXYLine(line, "1")
         IN  /\ xy.some
             /\ index' = Count(index, ChangedIndex(xy.val[1]))
             /\ working_tree' = Count(working_tree, ChangedWorkingTree(xy.val[2]))
             /\ seen' = See(line)
    /\ UNCHANGED <<pc, is_repo, header, conflicts, ignored, later, result>>

\* main.rs:120-136
ReadRenamed ==
    /\ MoreEntries
    /\ \E line \in RenamedLines :
         LET xy == ParseXYLine(line, "2")
         IN  /\ xy.some
             /\ index' = Count(index, RenamedIndex(xy.val[1]))
             /\ working_tree' = Count(working_tree, RenamedWorkingTree(xy.val[2]))
             /\ seen' = See(line)
    /\ UNCHANGED <<pc, is_repo, header, conflicts, ignored, later, result>>

\* mutant of ReadUnmerged: the letters of an unmerged line are counted as changes too
ReadUnmerged_Counted ==
    /\ MoreEntries
    /\ \E line \in UnmergedLines :
         LET xy == ParseXYLine(line, "u")
         IN  /\ xy.some
             /\ conflicts' = conflicts + 1
             /\ index' = Count(index, ChangedIndex(xy.val[1]))
             /\ working_tree' = Count(working_tree, ChangedWorkingTree(xy.val[2]))
             /\ seen' = See(line)
    /\ UNCHANGED <<pc, is_repo, header, ignored, later, result>>

\* main.rs:145-148
ReadUnmerged ==
    /\ MoreEntries
    /\ \E line \in UnmergedLines :
         /\ ParseXYLine(line, "u").some
         /\ conflicts' = conflicts + 1
         /\ seen' = See(line)
    /\ UNCHANGED <<pc, is_repo, header, working_tree, index, ignored, later, result>>

\* main.rs:35,149: the lines are exhausted
EndOfLines ==
    /\ pc = "lines"
    /\ pc' = "commit"
    /\ UNCHANGED <<is_repo, header, counts, later, result, seen>>

\* ---------------------------------------------------------------- repo:: values
\* repo::Commit::new
CommitNew(hash) == [hash |-> hash]
\* repo::DetachedRef::Commit
DetachedCommit(hash) == [ref |-> "Commit", commit |-> CommitNew(hash)]
\* repo::RemoteBranch::new
RemoteBranchNew(remote_name, branch) == [remote |-> remote_name, branch |-> branch]
\* repo::Divergence::new
DivergenceNew(a, b) == [ahead |-> a, behind |-> b]
\* repo::Branch::new
BranchNew(name, diverge) == [local |-> name, remote |-> diverge]
\* repo::ConflictRef::commit, repo::ConflictRef::branch
ConflictRefCommit(hash) == [ref |-> "Commit", commit |-> CommitNew(hash)]
ConflictRefBranch(name) == [ref |-> "Branch", branch |-> BranchNew(name, None)]

\* mutant of headless: the two Changes in the wrong order
headless_swapped(wt, idx, st) ==
    [variant |-> "Headless", working_tree |-> idx, index |-> wt, stash |-> st]

\* mutant of clean: the stash count is dropped
clean_NoStash(branch, st) ==
    [variant |-> "Clean", head |-> branch, stash |-> 0]

\* repo::Prompt::headless, clean, detached, working, conflict
headless(wt, idx, st) ==
    [variant |-> "Headless", working_tree |-> wt, index |-> idx, stash |-> st]
clean(branch, st) ==
    [variant |-> "Clean", head |-> branch, stash |-> st]
detached(head, wt, idx, st) ==
    [variant |-> "Detached", head |-> head, working_tree |-> wt, index |-> idx, stash |-> st]
working(branch, wt, idx, st) ==
    [variant |-> "Working", branch |-> branch, working_tree |-> wt, index |-> idx, stash |-> st]
conflict(kind, source, target, wt, idx, n, st) ==
    [variant |-> "Conflicted", kind |-> kind, source |-> source, target |-> target,
     working_tree |-> wt, index |-> idx, conflicts |-> n, stash |-> st]

\* ---------------------------------------------------------------- classification
\* main.rs:161-165: no commit, the HEAD is unborn
CheckCommit ==
    /\ pc = "commit"
    /\ IF commit.some
       THEN pc' = "local" /\ UNCHANGED result
       ELSE Return(Ok(headless(working_tree, index, stash)))
    /\ UNCHANGED <<is_repo, header, counts, later, seen>>

\* mutant of CheckLocal: Detached without the test of the conflict count
CheckLocal_NoConflictTest ==
    /\ pc = "local"
    /\ IF local.some
       THEN /\ local_name' = local.val
            /\ pc' = "remote_diverge"
            /\ UNCHANGED result
       ELSE /\ Return(Ok(detached(DetachedCommit(commit.val), working_tree, index, stash)))
            /\ UNCHANGED local_name
    /\ UNCHANGED <<is_repo, header, counts, remote_diverge, resolution, stdout, exit_code, seen>>

\* main.rs:167-181: no branch name, the HEAD is detached
CheckLocal ==
    /\ pc = "local"
    /\ IF local.some
       THEN /\ local_name' = local.val
            /\ pc' = "remote_diverge"
            /\ UNCHANGED result
       ELSE IF conflicts = 0
            THEN /\ Return(Ok(detached(DetachedCommit(commit.val), working_tree, index, stash)))
                 /\ UNCHANGED local_name
            ELSE /\ local_name' = commit.val
                 /\ pc' = "remote_diverge"
                 /\ UNCHANGED result
    /\ UNCHANGED <<is_repo, header, counts, remote_diverge, resolution, stdout, exit_code, seen>>

\* usize addition: it wraps without overflow checks (release builds)
WrappingAdd(a, b) == (a + b) % WordModulus

\* main.rs:187
Diverge(a, b) == IF WrappingAdd(a, b) # 0 THEN Some(DivergenceNew(a, b)) ELSE None

\* main.rs:183-189: the closure of remote.map; `checked` is whether the build has
\* overflow checks (debug builds), where an overflowing `ahead + behind` panics
RemoteDiverge(name, a, b, checked) ==
    LET split == SplitOnce(name)
    IN  IF ~split.some
        THEN Panic("upstream")
        ELSE IF checked /\ a + b > WordMax
             THEN Panic("overflow")
             ELSE Ok(Some(<<RemoteBranchNew(split.val[1], split.val[2]), Diverge(a, b)>>))

\* main.rs:183-189
MapRemote ==
    /\ pc = "remote_diverge"
    /\ IF remote.some
       THEN \E checked \in BOOLEAN :
              LET built == RemoteDiverge(remote.val, ahead, behind, checked)
              IN  IF built.tag = "Ok"
                  THEN remote_diverge' = built.val /\ pc' = "conflict" /\ UNCHANGED result
                  ELSE Return(built) /\ UNCHANGED remote_diverge
       ELSE remote_diverge' = None /\ pc' = "conflict" /\ UNCHANGED result
    /\ UNCHANGED <<is_repo, header, counts, local_name, resolution, stdout, exit_code, seen>>

\* ---------------------------------------------------------------- conflict resolution
\* the commit of HEAD is c1; c2 is another commit
Tips == {<<"c1">>, <<"c2">>}

\* the refs `git show-ref` may list, in its order (sorted by name)
RefNames == <<(<<"refs", "heads", "main">>), (<<"refs", "heads", "topic">>), (<<"refs", "tags", "v1">>)>>

\* one "<id> <ref>" line per ref that exists; tip[i] = <<>> when ref i does not exist
Listing(tip) ==
    SelectSeq([i \in DOMAIN RefNames |-> <<tip[i], RefNames[i]>>], LAMBDA line : line[1] # <<>>)

\* the outputs of `git show-ref`; the last is a line without a space
ShowRefOutputs ==
    {Listing(tip) : tip \in [DOMAIN RefNames -> Tips \cup {<<>>}]} \cup {<<(<<(<<"junk">>)>>)>>}

\* a marker file: absent, unreadable, or holding a commit id
FileStates ==
    {[exists |-> FALSE, readable |-> TRUE, content |-> <<>>],
     [exists |-> TRUE, readable |-> FALSE, content |-> <<>>]}
    \cup {[exists |-> TRUE, readable |-> TRUE, content |-> c] : c \in Tips}

\* util::try_get_file_content: Ok(None) for a missing file, Err for a failed read
TryGetFileContent(file) ==
    IF ~file.exists THEN Ok(None)
    ELSE IF ~file.readable THEN Err("io")
    ELSE Ok(Some(file.content))

\* str::trim_start_matches(prefix): strips the prefix as often as it leads the text
RECURSIVE TrimStartMatches(_, _)
TrimStartMatches(text, prefix) ==
    IF Len(text) >= Len(prefix) /\ SubSeq(text, 1, Len(prefix)) = prefix
    THEN TrimStartMatches(SubSeq(text, Len(prefix) + 1, Len(text)), prefix)
    ELSE text

\* main.rs:229-235
resolve(reference, is_branch) ==
    IF is_branch
    THEN ConflictRefBranch(TrimStartMatches(reference, <<"refs", "heads">>))
    ELSE ConflictRefCommit(reference)

\* main.rs:216-227: the loop over the show-ref lines; a line without a space panics
RECURSIVE ResolveRefs(_, _)
ResolveRefs(lines, acc) ==
    IF lines = <<>> THEN acc
    ELSE LET line == Head(lines)
         IN  IF Len(line) < 2 THEN [acc EXCEPT !.panicked = TRUE]
             ELSE IF line[1] = acc.source
                  THEN ResolveRefs(Tail(lines),
                           [acc EXCEPT !.source = line[2], !.is_source_branch = TRUE])
                  ELSE IF line[1] = acc.target
                       THEN ResolveRefs(Tail(lines),
                                [acc EXCEPT !.target = line[2], !.is_target_branch = TRUE])
                       ELSE ResolveRefs(Tail(lines), acc)

\* mutant of Conflicted: the wrong counter is passed as the conflict count
Conflicted_WrongCount(kind, source, target, lines) ==
    LET acc == ResolveRefs(lines, [source |-> source, target |-> target,
                                   is_source_branch |-> FALSE, is_target_branch |-> FALSE,
                                   panicked |-> FALSE])
    IN  IF acc.panicked
        THEN Panic("<id> <ref>")
        ELSE Ok(conflict(kind, resolve(acc.source, acc.is_source_branch),
                         resolve(acc.target, acc.is_target_branch),
                         working_tree, index, ignored, stash))

\* main.rs:213-245: resolve both ends against the refs and build the prompt
Conflicted(kind, source, target, lines) ==
    LET acc == ResolveRefs(lines, [source |-> source, target |-> target,
                                   is_source_branch |-> FALSE, is_target_branch |-> FALSE,
                                   panicked |-> FALSE])
    IN  IF acc.panicked
        THEN Panic("<id> <ref>")
        ELSE Ok(conflict(kind, resolve(acc.source, acc.is_source_branch),
                         resolve(acc.target, acc.is_target_branch),
                         working_tree, index, conflicts, stash))

\* mutant of ResolveConflict: the rebase marker is looked at first
ResolveConflict_RebaseFirst ==
    /\ pc = "conflict"
    /\ IF conflicts # 0
       THEN \E spawned \in BOOLEAN :
              IF ~spawned
              THEN Return(Err("git show-ref")) /\ consulted' = {"show-ref"}
                   /\ UNCHANGED <<markers, ends>>
              ELSE \E merge_file \in FileStates, rebase_file \in FileStates :
                     LET merge_head == TryGetFileContent(merge_file)
                         rebase_head == TryGetFileContent(rebase_file)
                     IN  /\ markers' = Some([merge |-> merge_file, rebase |-> rebase_file])
                         /\ IF rebase_head.tag = "Err"
                            THEN /\ Return(rebase_head)
                                 /\ consulted' = {"show-ref", "REBASE_HEAD"}
                                 /\ UNCHANGED ends
                            ELSE IF rebase_head.val.some
                            THEN /\ ends' = Some([kind |-> "Rebase", source |-> commit.val,
                                                  target |-> rebase_head.val.val])
                                 /\ consulted' = {"show-ref", "REBASE_HEAD"}
                                 /\ pc' = "resolve"
                                 /\ UNCHANGED result
                            ELSE /\ consulted' = {"show-ref", "MERGE_HEAD", "REBASE_HEAD"}
                                 /\ IF merge_head.tag = "Err"
                                    THEN Return(merge_head) /\ UNCHANGED ends
                                    ELSE IF merge_head.val.some
                                    THEN /\ ends' = Some([kind |-> "Merge", source |-> local_name,
                                                          target |-> merge_head.val.val])
                                         /\ pc' = "resolve"
                                         /\ UNCHANGED result
                                    ELSE Return(Panic("not yet implemented")) /\ UNCHANGED ends
       ELSE pc' = "branch" /\ UNCHANGED <<result, resolution>>
    /\ UNCHANGED <<is_repo, header, counts, local_name, remote_diverge, stdout, exit_code, seen>>

\* main.rs:191-211: with conflicts, run git show-ref and read the markers: MERGE_HEAD
\* first and, when it is missing, REBASE_HEAD; they give `(kind, source, target)`
ResolveConflict ==
    /\ pc = "conflict"
    /\ IF conflicts # 0
       THEN \E spawned \in BOOLEAN :
              IF ~spawned
              THEN Return(Err("git show-ref")) /\ consulted' = {"show-ref"}
                   /\ UNCHANGED <<markers, ends>>
              ELSE \E merge_file \in FileStates, rebase_file \in FileStates :
                     LET merge_head == TryGetFileContent(merge_file)
                         rebase_head == TryGetFileContent(rebase_file)
                     IN  /\ markers' = Some([merge |-> merge_file, rebase |-> rebase_file])
                         /\ IF merge_head.tag = "Err"
                            THEN /\ Return(merge_head)
                                 /\ consulted' = {"show-ref", "MERGE_HEAD"}
                                 /\ UNCHANGED ends
                            ELSE IF merge_head.val.some
                            THEN /\ ends' = Some([kind |-> "Merge", source |-> local_name,
                                                  target |-> merge_head.val.val])
                                 /\ consulted' = {"show-ref", "MERGE_HEAD"}
                                 /\ pc' = "resolve"
                                 /\ UNCHANGED result
                            ELSE /\ consulted' = {"show-ref", "MERGE_HEAD", "REBASE_HEAD"}
                                 /\ IF rebase_head.tag = "Err"
                                    THEN Return(rebase_head) /\ UNCHANGED ends
                                    ELSE IF rebase_head.val.some
                                    THEN /\ ends' = Some([kind |-> "Rebase", source |-> commit.val,
                                                          target |-> rebase_head.val.val])
                                         /\ pc' = "resolve"
                                         /\ UNCHANGED result
                                    ELSE Return(Panic("not yet implemented")) /\ UNCHANGED ends
       ELSE pc' = "branch" /\ UNCHANGED <<result, resolution>>
    /\ UNCHANGED <<is_repo, header, counts, local_name, remote_diverge, stdout, exit_code, seen>>

\* main.rs:213-245: the lines of the show-ref output are walked and the prompt is built
ResolveEnds ==
    /\ pc = "resolve"
    /\ \E lines \in ShowRefOutputs :
         Return(Conflicted(ends.val.kind, ends.val.source, ends.val.target, lines))
    /\ UNCHANGED <<is_repo, header, counts, later, seen>>

\* main.rs:248-260
ReturnBranch ==
    /\ pc = "branch"
    /\ IF any(working_tree) \/ any(index)
       THEN Return(Ok(working(BranchNew(local_name, remote_diverge), working_tree, index, stash)))
       ELSE Return(Ok(clean(BranchNew(local_name, remote_diverge), stash)))
    /\ UNCHANGED <<is_repo, header, counts, later, seen>>

\* ---------------------------------------------------------------- rendering
\* Rendered text is a sequence of characters; an escape sequence of termion is one
\* element of it.
Bold == "ESC[1m"
Reset == "ESC[m"
FgRed == "ESC[38;5;1m"
FgGreen == "ESC[38;5;2m"
FgYellow == "ESC[38;5;3m"
FgBlue == "ESC[38;5;4m"
FgMagenta == "ESC[38;5;5m"
FgCyan == "ESC[38;5;6m"

\* the private-use glyphs of branch.rs:88 and :97 (U+F47B, U+F47C)
AheadGlyph == "U+F47B"
BehindGlyph == "U+F47C"

\* the characters of the components a name or an object id is made of; the object ids
\* are eight hex digits long here, longer than the width of a detached head
Chars(word) ==
    CASE word = "main" -> <<"m", "a", "i", "n">>
      [] word = "topic" -> <<"t", "o", "p", "i", "c">>
      [] word = "feature" -> <<"f", "e", "a", "t", "u", "r", "e">>
      [] word = "origin" -> <<"o", "r", "i", "g", "i", "n">>
      [] word = "refs" -> <<"r", "e", "f", "s">>
      [] word = "heads" -> <<"h", "e", "a", "d", "s">>
      [] word = "tags" -> <<"t", "a", "g", "s">>
      [] word = "v1" -> <<"v", "1">>
      [] word = "c1" -> <<"c", "1", "0", "0", "0", "0", "0", "0">>
      [] word = "c2" -> <<"c", "2", "0", "0", "0", "0", "0", "0">>
      [] OTHER -> <<word>>

\* the characters of a text: its components joined by '/'
RECURSIVE Str(_)
Str(text) ==
    IF text = <<>> THEN <<>>
    ELSE IF Len(text) = 1 THEN Chars(text[1])
    ELSE Chars(text[1]) \o <<"/">> \o Str(Tail(text))

\* Display for usize: the decimal digits
RECURSIVE Decimal(_)
Decimal(n) ==
    LET digit == <<"0", "1", "2", "3", "4", "5", "6", "7", "8", "9">>[(n % 10) + 1]
    IN  IF n < 10 THEN <<digit>> ELSE Decimal(n \div 10) \o <<digit>>

\* std::fmt::Formatter: the flags '#' and '0' and the width of a format spec
Formatter(alternate, zero, width) ==
    [alternate |-> alternate, sign_aware_zero_pad |-> zero, width |-> width]

\* branch.rs:18-50
DisplayRemoteBranch(remote_branch, f) ==
    LET name == IF f.sign_aware_zero_pad THEN <<"~">> ELSE Str(remote_branch.branch)
    IN  IF f.alternate
        THEN <<FgBlue>> \o Str(remote_branch.remote) \o <<Reset, "/", FgBlue>> \o name \o <<Reset>>
        ELSE Str(remote_branch.remote) \o <<"/">> \o name

\* branch.rs:79-115
DisplayDivergence(divergence, f) ==
    IF f.alternate
    THEN (IF divergence.ahead # 0
          THEN <<FgRed, AheadGlyph, Reset>> \o Decimal(divergence.ahead) ELSE <<>>)
         \o (IF divergence.behind # 0
             THEN <<FgRed, BehindGlyph, Reset>> \o Decimal(divergence.behind) ELSE <<>>)
    ELSE (IF divergence.ahead # 0 THEN <<AheadGlyph>> \o Decimal(divergence.ahead) ELSE <<>>)
         \o (IF divergence.behind # 0 THEN <<BehindGlyph>> \o Decimal(divergence.behind) ELSE <<>>)

\* mutant of DisplayBranch: the upstream's name is never replaced
DisplayBranch_FullName(branch, f) ==
    IF f.sign_aware_zero_pad THEN Str(branch.local)
    ELSE IF branch.remote.some
    THEN Str(branch.local)
         \o <<"[">> \o DisplayRemoteBranch(branch.remote.val[1], Formatter(f.alternate, FALSE, None))
         \o <<"]">>
         \o (IF branch.remote.val[2].some
             THEN <<"[">> \o DisplayDivergence(branch.remote.val[2].val,
                                               Formatter(f.alternate, FALSE, None)) \o <<"]">>
             ELSE IF f.alternate THEN <<"[", FgGreen, Reset, "]">> ELSE <<"[", "]">>)
    ELSE Str(branch.local)
         \o (IF f.alternate THEN <<"[", FgBlue, "-", Reset, "]">> ELSE <<"[", "-", "]">>)

\* branch.rs:156-210: with the '0' flag (sparse) the local name alone; else the
\* upstream, with '0' passed on to it when its branch is named like the local one,
\* and the divergence
DisplayBranch(branch, f) ==
    IF f.sign_aware_zero_pad THEN Str(branch.local)
    ELSE IF branch.remote.some
    THEN LET remote_branch == branch.remote.val[1]
             divergence == branch.remote.val[2]
         IN  Str(branch.local)
             \o <<"[">>
             \o DisplayRemoteBranch(remote_branch,
                    Formatter(f.alternate, remote_branch.branch = branch.local, None))
             \o <<"]">>
             \o (IF divergence.some
                 THEN <<"[">> \o DisplayDivergence(divergence.val,
                                                   Formatter(f.alternate, FALSE, None)) \o <<"]">>
                 ELSE IF f.alternate THEN <<"[", FgGreen, Reset, "]">> ELSE <<"[", "]">>)
    ELSE Str(branch.local)
         \o (IF f.alternate THEN <<"[", FgBlue, "-", Reset, "]">> ELSE <<"[", "-", "]">>)

\* mod.rs:27-51: at most `width` characters of the hash
DisplayCommit(c, f) ==
    LET hash == Str(c.hash)
        len == IF f.width.some /\ f.width.val < Len(hash) THEN f.width.val ELSE Len(hash)
    IN  IF f.alternate
        THEN <<Bold, FgYellow>> \o SubSeq(hash, 1, len) \o <<Reset>>
        ELSE SubSeq(hash, 1, len)

\* mod.rs:143-150 (a DetachedRef::Tag is never built by get_prompt)
DisplayDetachedRef(head, f) == DisplayCommit(head.commit, f)

\* mod.rs:83-97: a branch end gets the '0' flag
DisplayConflictRef(conflict_ref, f) ==
    IF conflict_ref.ref = "Commit"
    THEN DisplayCommit(conflict_ref.commit, f)
    ELSE DisplayBranch(conflict_ref.branch, Formatter(f.alternate, TRUE, None))

\* mutant of from_idx: Ren and Typ in the order of libgit2
from_idx_libgit2(value) ==
    CASE value = 0 -> Add [] value = 1 -> Mod [] value = 2 -> Del
      [] value = 3 -> Typ [] value = 4 -> Ren

\* change.rs:50-59
from_idx(value) ==
    CASE value = 0 -> Add [] value = 1 -> Mod [] value = 2 -> Del
      [] value = 3 -> Ren [] value = 4 -> Typ

\* change.rs:61-85
fmt_with(change, value, f) ==
    IF f.alternate
    THEN CASE change = Add -> <<FgGreen, "+">> \o Decimal(value) \o <<Reset>>
           [] change = Mod -> <<FgYellow, "~">> \o Decimal(value) \o <<Reset>>
           [] change = Del -> <<FgRed, "-">> \o Decimal(value) \o <<Reset>>
           [] change = Ren -> <<FgCyan, "*">> \o Decimal(value) \o <<Reset>>
           [] change = Typ -> <<FgMagenta, "?">> \o Decimal(value) \o <<Reset>>
    ELSE (CASE change = Add -> <<"+">>
            [] change = Mod -> <<"~">>
            [] change = Del -> <<"-">>
            [] change = Ren -> <<"*">>
            [] change = Typ -> <<"?">>) \o Decimal(value)

\* change.rs:100-102, 143-149: the pairs (kind, count) in the order of the array
Iter(changes) == [i \in 1..5 |-> <<from_idx(i - 1), changes[i - 1]>>]

\* change.rs:116-124
RECURSIVE FmtEach(_, _)
FmtEach(pairs, f) ==
    IF pairs = <<>> THEN <<>>
    ELSE fmt_with(Head(pairs)[1], Head(pairs)[2], f) \o FmtEach(Tail(pairs), f)

DisplayChanges(changes, f) ==
    FmtEach(SelectSeq(Iter(changes), LAMBDA pair : pair[2] # 0), f)

\* mod.rs:246-264
fmt_stash(f, st) ==
    IF st = 0 THEN <<>>
    ELSE IF f.alternate
    THEN <<" ", ":", ":", " ", FgMagenta, "s", Reset, "[">> \o Decimal(st) \o <<"]">>
    ELSE <<" ", ":", ":", " ", "s", "[">> \o Decimal(st) \o <<"]">>

\* mod.rs:266-305: the labels w and i are coloured whatever the flags are
fmt_changes(f, wt, idx, n) ==
    (IF any(wt) \/ any(idx) \/ n # 0 THEN <<" ", ":", ":">> ELSE <<>>)
    \o (IF n = 0 THEN <<>>
        ELSE IF f.alternate
        THEN <<" ", "[", Bold, FgRed, "!">> \o Decimal(n) \o <<Reset, "]">>
        ELSE <<" ", "[", "!">> \o Decimal(n) \o <<"]">>)
    \o (IF any(wt)
        THEN <<" ", FgYellow, "w", Reset, "[">> \o DisplayChanges(wt, f) \o <<"]">>
        ELSE <<>>)
    \o (IF any(idx)
        THEN <<" ", FgGreen, "i", Reset, "[">> \o DisplayChanges(idx, f) \o <<"]">>
        ELSE <<>>)

\* mutant of DisplayEnds: the rebase is drawn like the merge
DisplayEnds_MergeArrow(kind, source, target, f) ==
    DisplayConflictRef(source, f) \o <<" ", "<", "-", " ">> \o DisplayConflictRef(target, f)

\* mod.rs:370-381: the two ends of a conflict and the arrow between them
DisplayEnds(kind, source, target, f) ==
    IF kind = "Merge"
    THEN DisplayConflictRef(source, f) \o <<" ", "<", "-", " ">> \o DisplayConflictRef(target, f)
    ELSE DisplayConflictRef(target, f) \o <<" ", "-", ">", " ">> \o DisplayConflictRef(source, f)

\* mod.rs:307-390
DisplayPrompt(prompt, f) ==
    CASE prompt.variant = "Headless" ->
           (IF f.alternate
            THEN <<"[", Bold, FgBlue, "h", "e", "a", "d", "l", "e", "s", "s", Reset, "]">>
            ELSE <<"[", "h", "e", "a", "d", "l", "e", "s", "s", "]">>)
           \o fmt_stash(f, prompt.stash)
           \o fmt_changes(f, prompt.working_tree, prompt.index, 0)
      [] prompt.variant = "Clean" ->
           DisplayBranch(prompt.head, f) \o fmt_stash(f, prompt.stash)
      [] prompt.variant = "Detached" ->
           DisplayDetachedRef(prompt.head, Formatter(f.alternate, FALSE, Some(7)))
           \o fmt_stash(f, prompt.stash)
           \o fmt_changes(f, prompt.working_tree, prompt.index, 0)
      [] prompt.variant = "Working" ->
           DisplayBranch(prompt.branch, f)
           \o fmt_stash(f, prompt.stash)
           \o fmt_changes(f, prompt.working_tree, prompt.index, 0)
      [] prompt.variant = "Conflicted" ->
           DisplayEnds(prompt.kind, prompt.source, prompt.target, f)
           \o fmt_stash(f, prompt.stash)
           \o fmt_changes(f, prompt.working_tree, prompt.index, prompt.conflicts)

\* ---------------------------------------------------------------- main
\* main.rs:272-277: the line printed for an Err
ErrorMarker ==
    [line |-> "marker", text |-> <<"[", Bold, FgRed, "e", "r", "r", "o", "r", Reset, "]">>]
\* main.rs:270: the line printed for a prompt, formatted with the flags f
PromptLine(prompt, f) ==
    [line |-> "prompt", prompt |-> prompt, f |-> f, text |-> DisplayPrompt(prompt, f)]

\* main.rs:269-285: print the prompt with "{:#}", or the marker and exit(1); a panic
\* unwinds through main, which prints nothing to stdout and ends the process with
\* code 101
Main ==
    /\ pc = "returned"
    /\ pc' = "exited"
    /\ CASE result.tag = "Ok" ->
              /\ stdout' = Append(stdout, PromptLine(result.val, Formatter(TRUE, FALSE, None)))
              /\ exit_code' = Some(0)
         [] result.tag = "Err" ->
              stdout' = Append(stdout, ErrorMarker) /\ exit_code' = Some(1)
         [] OTHER ->
              stdout' = stdout /\ exit_code' = Some(101)
    /\ UNCHANGED <<is_repo, header, counts, local_name, remote_diverge, resolution, result, seen>>

Next ==
    \/ Spawn
    \/ ReadBranchOid
    \/ ReadBranchHead
    \/ ReadBranchUpstream
    \/ ReadBranchAb
    \/ ReadStash
    \/ ReadUntracked
    \/ ReadIgnored
    \/ ReadChanged
    \/ ReadRenamed
    \/ ReadUnmerged
    \/ EndOfLines
    \/ CheckCommit
    \/ CheckLocal
    \/ MapRemote
    \/ ResolveConflict
    \/ ResolveEnds
    \/ ReturnBranch
    \/ Main

Spec == Init /\ [][Next]_vars

\* ---------------------------------------------------------------- the renderer alone
\* largest count of one kind of change in a rendered Changes
MaxCount == 2

RenderNames == {<<"main">>, <<"feature">>}
RenderDivergences ==
    {None} \cup {Some(DivergenceNew(d[1], d[2])) : d \in {<<2, 1>>, <<1, 0>>, <<0, 12>>}}
RenderBranches ==
    {BranchNew(name, None) : name \in RenderNames}
    \cup {BranchNew(name, Some(<<RemoteBranchNew(<<"origin">>, branch), d>>)) :
            name \in RenderNames, branch \in RenderNames, d \in RenderDivergences}
RenderChanges == [Change -> 0..MaxCount]
FewChanges ==
    {ChangesNew, Incr(ChangesNew, Add), Incr(ChangesNew, Mod), [ChangesNew EXCEPT ![Del] = 12]}
RenderStashes == {0, 1, 10}
RenderRefs ==
    {ConflictRefCommit(<<"c1">>), ConflictRefBranch(<<"main">>), ConflictRefBranch(<<"feature">>)}

\* the prompts handed to the renderer
RenderInputs ==
    {headless(wt, idx, st) : wt \in RenderChanges, idx \in FewChanges, st \in RenderStashes}
    \cup {detached(DetachedCommit(<<"c1">>), wt, idx, st) :
            wt \in FewChanges, idx \in RenderChanges, st \in RenderStashes}
    \cup {clean(branch, st) : branch \in RenderBranches, st \in RenderStashes}
    \cup {working(branch, wt, idx, st) :
            branch \in RenderBranches, wt \in FewChanges \ {ChangesNew}, idx \in FewChanges,
            st \in RenderStashes}
    \cup {conflict(kind, source, target, wt, idx, n, st) :
            kind \in {"Merge", "Rebase"}, source \in RenderRefs, target \in RenderRefs,
            wt \in FewChanges, idx \in FewChanges, n \in 1..2, st \in RenderStashes}

\* a prompt is given, nothing is printed yet
InitRender ==
    /\ pc = "render"
    /\ is_repo = TRUE
    /\ commit = None
    /\ local = None
    /\ remote = None
    /\ ahead = 0
    /\ behind = 0
    /\ conflicts = 0
    /\ stash = 0
    /\ ignored = 0
    /\ working_tree = ChangesNew
    /\ index = ChangesNew
    /\ local_name = <<>>
    /\ remote_diverge = None
    /\ result \in {Ok(prompt) : prompt \in RenderInputs}
    /\ consulted = {}
    /\ markers = None
    /\ ends = None
    /\ stdout = <<>>
    /\ exit_code = None
    /\ seen = SeenNew

\* Display::fmt of the prompt (mod.rs:307-390) under each combination of the flags
\* '#' (decorate) and '0' (sparse)
Render ==
    /\ pc = "render"
    /\ pc' = "rendered"
    /\ \E alternate \in BOOLEAN, zero \in BOOLEAN :
         stdout' = Append(stdout, PromptLine(result.val, Formatter(alternate, zero, None)))
    /\ UNCHANGED <<is_repo, header, counts, local_name, remote_diverge, resolution, result,
                   exit_code, seen>>

SpecRender == InitRender /\ [][Render]_vars

\* ================================================================ properties
Variants == {"Headless", "Clean", "Detached", "Working", "Conflicted"}

Returned == pc \in {"returned", "exited"}
ReturnedPrompt == Returned /\ result.tag = "Ok"

\* the status output could not be obtained or holds a malformed header line
AcquisitionFailed ==
    \/ result.tag = "Err" /\ result.cause \in {"git status", "stash"}
    \/ result.tag = "Panic" /\ result.cause \in {"ab", "valid count"}

\* conflict resolution could not read the refs or a marker, or the refs are malformed
ResolutionFailed ==
    \/ result.tag = "Err" /\ result.cause \in {"git show-ref", "io"}
    \/ result.tag = "Panic" /\ result.cause = "<id> <ref>"

\* C1: for every combination of well-formed inputs (HEAD born or unborn, branch name,
\* upstream, ahead/behind, change counts, conflict tally, merge and rebase marker present
\* or absent) get_prompt finishes with exactly one of the five variants.
C1_ExactlyOneVariant ==
    (Returned /\ ~AcquisitionFailed /\ ~ResolutionFailed)
        => (result.tag = "Ok" /\ result.val.variant \in Variants)

\* C2: whenever HEAD is unborn, get_prompt returns Headless with the acquired
\* working_tree and index counts, whatever the conflict tally, the branch name, the
\* upstream and the markers are, and it consults no conflict marker.
C2_UnbornIsHeadless ==
    (Returned /\ ~AcquisitionFailed /\ ~commit.some)
        => /\ result.tag = "Ok"
           /\ result.val.variant = "Headless"
           /\ result.val.working_tree = working_tree
           /\ result.val.index = index
           /\ consulted = {}

C2_Witness ==
    /\ Returned /\ ~commit.some /\ conflicts > 0 /\ local.some /\ remote.some
    /\ result.tag = "Ok" /\ result.val.variant = "Headless"
    /\ any(working_tree) /\ ~any(index)

\* C3: with HEAD born and conflict_count > 0 the result is never Detached, on a branch and
\* detached alike; a detached HEAD with conflicts goes on to conflict resolution with the
\* HEAD commit as the local anchor; Detached is returned only without a branch name and
\* with conflict_count = 0.
C3_NeverDetachedOnConflict ==
    /\ (ReturnedPrompt /\ commit.some /\ conflicts > 0) => result.val.variant = "Conflicted"
    /\ (ReturnedPrompt /\ result.val.variant = "Detached")
           => (commit.some /\ ~local.some /\ conflicts = 0)
    /\ (pc \in {"remote_diverge", "conflict"} /\ ~local.some)
           => (conflicts > 0 /\ local_name = commit.val)

C3_Witness ==
    /\ ReturnedPrompt /\ commit.some /\ ~local.some /\ conflicts > 0
    /\ result.val.variant = "Conflicted" /\ result.val.kind = "Rebase"
    /\ local_name = commit.val

\* C4: every Conflicted value has a strictly positive conflict count, equal to the
\* tally of unmerged entries of the status output.
C4_ConflictedCountPositive ==
    (ReturnedPrompt /\ result.val.variant = "Conflicted")
        => (result.val.conflicts > 0 /\ result.val.conflicts = seen.unmerged)

C4_Witness ==
    /\ ReturnedPrompt /\ result.val.variant = "Conflicted"
    /\ result.val.conflicts = 2 /\ seen.unmerged = 2

\* C5: a Branch with an upstream carries Some(Divergence(ahead, behind)) exactly when
\* ahead # 0 or behind # 0, and None exactly when both are 0.
C5_DivergenceIffNonzero ==
    (ReturnedPrompt /\ result.val.variant \in {"Working", "Clean"})
        => LET branch == IF result.val.variant = "Working" THEN result.val.branch
                         ELSE result.val.head
           IN  branch.remote.some
                 => LET divergence == branch.remote.val[2]
                    IN  /\ divergence.some <=> (ahead # 0 \/ behind # 0)
                        /\ divergence.some
                             => (divergence.val.ahead = ahead /\ divergence.val.behind = behind)

\* C6: with HEAD born, a branch name and conflict_count = 0, get_prompt returns Working
\* exactly when some count of working_tree or index is nonzero and Clean exactly when all
\* ten are 0, with the same Branch (name, upstream) on both outcomes; any() is true iff
\* some count is nonzero.
C6_WorkingIffAnyChange ==
    (Returned /\ ~AcquisitionFailed /\ commit.some /\ local.some /\ conflicts = 0)
        => LET changed == \E k \in Change : working_tree[k] # 0 \/ index[k] # 0
           IN  /\ result.tag = "Ok"
               /\ result.val.variant = (IF changed THEN "Working" ELSE "Clean")
               /\ LET branch == IF changed THEN result.val.branch ELSE result.val.head
                  IN  /\ branch.local = local.val
                      /\ branch.remote.some <=> remote.some
               /\ any(working_tree) <=> (\E k \in Change : working_tree[k] # 0)
               /\ ~any(ChangesNew)

\* C7: on every fatal condition (no prompt is returned) the program writes exactly one
\* error marker line to standard output and ends with a non-zero exit code.
C7_FatalPrintsMarker ==
    (pc = "exited" /\ result.tag # "Ok")
        => (stdout = <<ErrorMarker>> /\ exit_code.some /\ exit_code.val # 0)

\* C8: when no repository exists at or above the path (the status output is empty), the
\* program prints a marker line that is neither the error marker nor a prompt.
C8_NoRepoMarker ==
    (pc = "exited" /\ ~is_repo /\ ~AcquisitionFailed)
        => (Len(stdout) = 1 /\ stdout[1].line = "marker" /\ stdout[1] # ErrorMarker)

\* the counts of one Changes grow by `by` in total from one state to the next, none shrinks
Grows(before, after, by) ==
    /\ \A k \in Change : after[k] >= before[k]
    /\ Cardinality({k \in Change : after[k] # before[k]}) = by
    /\ \A k \in Change : after[k] - before[k] \in {0, 1}

\* C9: conflict_count equals the number of unmerged entries read; reading an unmerged entry
\* changes no count of working_tree or index; every entry is counted once and changes at
\* most one index kind and at most one working-tree kind, by exactly 1; nothing but an
\* entry changes a count.
C9_ConflictTally ==
    /\ [](conflicts = seen.unmerged)
    /\ [][/\ seen'.unmerged # seen.unmerged
               => (working_tree' = working_tree /\ index' = index /\ conflicts' = conflicts + 1)
          /\ seen'.entries # seen.entries
               => /\ seen'.entries = seen.entries + 1
                  /\ Grows(index, index', 0) \/ Grows(index, index', 1)
                  /\ Grows(working_tree, working_tree', 0) \/ Grows(working_tree, working_tree', 1)
          /\ seen'.entries = seen.entries
               => (working_tree' = working_tree /\ index' = index /\ conflicts' = conflicts)
         ]_vars

C9_Witness ==
    /\ pc = "commit" /\ conflicts = 1 /\ seen.unmerged = 1 /\ seen.entries = 2
    /\ any(index) /\ any(working_tree)

\* C10: for entries that are neither unmerged nor ignored, the index count of each kind is
\* the number of entries with that kind on the index side and the working_tree count of
\* each kind is the number of entries with that kind on the working-tree side, whatever
\* the other side of the entry is.
C10_RoundTrip ==
    (conflicts = 0 /\ ignored = 0)
        => (index = seen.index /\ working_tree = seen.working_tree)

\* ---------------------------------------------------------------- rendering properties
Styling == {Bold, Reset, FgRed, FgGreen, FgYellow, FgBlue, FgMagenta, FgCyan}

\* the text without its escape sequences
Strip(text) == SelectSeq(text, LAMBDA c : c \notin Styling)

HasPrefix(text, prefix) ==
    Len(text) >= Len(prefix) /\ SubSeq(text, 1, Len(prefix)) = prefix

Rendered == pc = "rendered"

\* the prompt rendered shows a branch that has an upstream
RenderedUpstream ==
    /\ Rendered
    /\ \/ result.val.variant = "Clean" /\ result.val.head.remote.some
       \/ result.val.variant = "Working" /\ result.val.branch.remote.some

ShownBranch == IF result.val.variant = "Clean" THEN result.val.head ELSE result.val.branch

\* local[remote/name][ : the start of a branch with an upstream
UpstreamShape(branch, name) ==
    Str(branch.local) \o <<"[">> \o Str(branch.remote.val[1].remote) \o <<"/">> \o name
    \o <<"]", "[">>

C12_PlainIsStructural ==
    (Rendered /\ ~stdout[1].f.alternate)
        => /\ \A i \in DOMAIN stdout[1].text : stdout[1].text[i] \notin Styling
           /\ stdout[1].text
                = Strip(DisplayPrompt(result.val,
                            Formatter(TRUE, stdout[1].f.sign_aware_zero_pad, None)))
           /\ result.val = headless(Incr(ChangesNew, Add), ChangesNew, 0)
                => stdout[1].text = <<"[", "h", "e", "a", "d", "l", "e", "s", "s", "]",
                                      " ", ":", ":", " ", "w", "[", "+", "1", "]">>

\* sigil and count of one kind, nothing for a zero count
Part(sigil, count) == IF count = 0 THEN <<>> ELSE <<sigil>> \o Decimal(count)

\* the five kinds in the order Add, Modify, Delete, Rename, TypeChange
Sigils(changes) ==
    Part("+", changes[Add]) \o Part("~", changes[Mod]) \o Part("-", changes[Del])
    \o Part("*", changes[Ren]) \o Part("?", changes[Typ])

\* label[sigils] of one side, nothing when the side has no change
Summary(label, changes) ==
    IF \A k \in Change : changes[k] = 0 THEN <<>>
    ELSE <<" ", label, "[">> \o Sigils(changes) \o <<"]">>

\* an end of a conflict without any bracket: the branch name, or the commit id
BareEnd(conflict_ref) ==
    IF conflict_ref.ref = "Branch" THEN Str(conflict_ref.branch.local)
    ELSE Str(conflict_ref.commit.hash)

\* "source <- target" for a merge, "target -> source" for a rebase
BareEnds(prompt) ==
    IF prompt.kind = "Merge"
    THEN BareEnd(prompt.source) \o <<" ", "<", "-", " ">> \o BareEnd(prompt.target)
    ELSE BareEnd(prompt.target) \o <<" ", "-", ">", " ">> \o BareEnd(prompt.source)

ConflictPart(n) == <<" ", ":", ":", " ", "[", "!">> \o Decimal(n) \o <<"]">>

RenderedConflict == Rendered /\ result.val.variant = "Conflicted"

\* C13 as stated: a Conflicted prompt renders as the two bare ends around the arrow of
\* its kind, followed by " :: [!N]" and then the working-tree and index summaries.
C13_EndsThenConflicts ==
    RenderedConflict
        => Strip(stdout[1].text)
             = BareEnds(result.val) \o ConflictPart(result.val.conflicts)
               \o Summary("w", result.val.working_tree) \o Summary("i", result.val.index)

\* C13, amended: between the ends and " :: [!N]" stands " :: s[S]" whenever the stash
\* count S is not 0.
C13_EndsStashConflicts ==
    RenderedConflict
        => Strip(stdout[1].text)
             = BareEnds(result.val)
               \o (IF result.val.stash = 0 THEN <<>>
                   ELSE <<" ", ":", ":", " ", "s", "[">> \o Decimal(result.val.stash) \o <<"]">>)
               \o ConflictPart(result.val.conflicts)
               \o Summary("w", result.val.working_tree) \o Summary("i", result.val.index)

C13_Witness ==
    /\ Rendered
    /\ result.val = conflict("Merge", ConflictRefBranch(<<"main">>),
                             ConflictRefBranch(<<"feature">>), ChangesNew, ChangesNew, 2, 0)
    /\ stdout[1].f = Formatter(FALSE, FALSE, None)
    /\ stdout[1].text = <<"m", "a", "i", "n", " ", "<", "-", " ",
                          "f", "e", "a", "t", "u", "r", "e", " ", ":", ":", " ", "[", "!", "2", "]">>

\* the Changes a prompt carries
ChangesOf(prompt) ==
    IF prompt.variant = "Clean" THEN {} ELSE {prompt.working_tree, prompt.index}

\* C14: a Changes renders as the concatenation, in the order Add, Modify, Delete,
\* Rename, TypeChange, of sigil and count (+ ~ - * ?) of exactly the kinds with a
\* nonzero count, without separator; the iteration yields five (kind, count) pairs
\* in that order.
C14_SigilsInOrder ==
    /\ \A changes \in ChangesOf(result.val) :
         /\ DisplayChanges(changes, Formatter(FALSE, FALSE, None)) = Sigils(changes)
         /\ Strip(DisplayChanges(changes, Formatter(TRUE, FALSE, None))) = Sigils(changes)
         /\ Iter(changes) = <<(<<Add, changes[Add]>>), (<<Mod, changes[Mod]>>),
                              (<<Del, changes[Del]>>), (<<Ren, changes[Ren]>>),
                              (<<Typ, changes[Typ]>>)>>
    /\ (Rendered /\ result.val.variant = "Headless" /\ result.val.stash = 0)
         => HasPrefix(Strip(stdout[1].text),
                      <<"[", "h", "e", "a", "d", "l", "e", "s", "s", "]">>
                      \o (IF \A k \in Change : result.val.working_tree[k] = 0 THEN <<>>
                          ELSE <<" ", ":", ":", " ", "w", "[">>
                               \o Sigils(result.val.working_tree) \o <<"]">>))

C14_Witness ==
    /\ Rendered
    /\ result.val = headless([k \in Change |-> IF k \in {Mod, Ren} THEN 2 ELSE 1],
                             ChangesNew, 0)
    /\ Strip(stdout[1].text) = <<"[", "h", "e", "a", "d", "l", "e", "s", "s", "]", " ", ":", ":",
                                 " ", "w", "[", "+", "1", "~", "2", "-", "1", "*", "2", "?", "1",
                                 "]">>

\* ---------------------------------------------------------------- the two readers
\* C15: for every sequence of status entries the line loop of get_prompt and
\* get_local_changes yield the same working_tree counts, index counts and conflict count.
C15_ReadersAgree ==
    /\ working_tree = seen.library.working_tree
    /\ index = seen.library.index
    /\ conflicts = seen.library.conflicts

\* ---------------------------------------------------------------- conflict resolution properties
\* a ref under refs/heads, and its branch name
IsLocalBranch(reference) == Len(reference) > 2 /\ SubSeq(reference, 1, 2) = <<"refs", "heads">>
ShortName(reference) == SubSeq(reference, 3, Len(reference))

\* the end is resolved by the commit id `oid` against the refs listed: a Branch named
\* like a local branch with that tip when there is one, the raw commit otherwise
ResolvedByCommit(conflict_ref, oid, lines) ==
    LET tips == {i \in DOMAIN lines : lines[i][1] = oid /\ IsLocalBranch(lines[i][2])}
    IN  IF tips # {}
        THEN \E i \in tips : conflict_ref = [ref |-> "Branch",
                                             branch |-> [local |-> ShortName(lines[i][2]),
                                                         remote |-> None]]
        ELSE conflict_ref = [ref |-> "Commit", commit |-> [hash |-> oid]]

\* C16: each end of a conflict is resolved by its commit id (the commit of HEAD, the
\* commit of the marker): Branch with the name of a local branch whose tip it is,
\* without upstream, else Commit with the raw id; for both ends independently,
\* whatever git show-ref lists.
C16_EndsByCommit ==
    pc = "resolve"
        => \A lines \in ShowRefOutputs :
             LET outcome == Conflicted(ends.val.kind, ends.val.source, ends.val.target, lines)
             IN  outcome.tag = "Ok"
                   => /\ ResolvedByCommit(outcome.val.source, commit.val, lines)
                      /\ ResolvedByCommit(outcome.val.target, ends.val.target, lines)

\* the text `local` of main.rs:167: the branch name, or the HEAD commit when detached
CurrentHead == IF local.some THEN local.val ELSE commit.val

\* C17: with conflict_count > 0 the kind is Merge whenever the merge marker is present,
\* also when the rebase marker is present too, and Rebase when only the rebase marker
\* is present; the ends are (current HEAD, target of the merge marker) for Merge and
\* (HEAD commit, target of the rebase marker) for Rebase; the prompt carries that kind.
C17_MergeFirst ==
    /\ pc = "resolve"
         => /\ conflicts > 0
            /\ ends.val.kind = (IF markers.val.merge.exists THEN "Merge" ELSE "Rebase")
            /\ ends.val.kind = "Merge"
                 => /\ ends.val.source = CurrentHead
                    /\ ends.val.target = markers.val.merge.content
            /\ ends.val.kind = "Rebase"
                 => /\ markers.val.rebase.exists
                    /\ ends.val.source = commit.val
                    /\ ends.val.target = markers.val.rebase.content
    /\ (ReturnedPrompt /\ result.val.variant = "Conflicted")
         => result.val.kind = (IF markers.val.merge.exists THEN "Merge" ELSE "Rebase")

C17_Witness ==
    /\ ReturnedPrompt /\ result.val.variant = "Conflicted" /\ result.val.kind = "Merge"
    /\ markers.val.merge.exists /\ markers.val.rebase.exists /\ markers.val.rebase.readable
    /\ ends.val.target = <<"c2">> /\ markers.val.rebase.content = <<"c1">>

\* ---------------------------------------------------------------- the stash count
\* what an end of a conflict can be resolved to from the text `end`, whatever
\* git show-ref lists
PossibleEnds(end) ==
    {[ref |-> "Commit", commit |-> [hash |-> end]]}
    \cup {[ref |-> "Branch",
           branch |-> [local |-> TrimStartMatches(RefNames[i], <<"refs", "heads">>),
                       remote |-> None]] : i \in DOMAIN RefNames}

\* the variant and every field but the stash count, written from the locals other than
\* `stash`
ClassifiedWithoutStash(prompt) ==
    IF ~commit.some
    THEN /\ prompt.variant = "Headless"
         /\ prompt.working_tree = working_tree /\ prompt.index = index
    ELSE IF ~local.some /\ conflicts = 0
    THEN /\ prompt.variant = "Detached"
         /\ prompt.head = [ref |-> "Commit", commit |-> [hash |-> commit.val]]
         /\ prompt.working_tree = working_tree /\ prompt.index = index
    ELSE IF conflicts # 0
    THEN /\ prompt.variant = "Conflicted"
         /\ prompt.kind = ends.val.kind
         /\ prompt.source \in PossibleEnds(ends.val.source)
         /\ prompt.target \in PossibleEnds(ends.val.target)
         /\ prompt.conflicts = conflicts
         /\ prompt.working_tree = working_tree /\ prompt.index = index
    ELSE IF \E k \in Change : working_tree[k] # 0 \/ index[k] # 0
    THEN /\ prompt.variant = "Working"
         /\ prompt.branch = [local |-> local.val, remote |-> remote_diverge]
         /\ prompt.working_tree = working_tree /\ prompt.index = index
    ELSE /\ prompt.variant = "Clean"
         /\ prompt.head = [local |-> local.val, remote |-> remote_diverge]

\* C18: the stash count does not interfere with classification: reading it changes
\* `stash` and nothing else; the variant returned and all of its other fields are
\* determined by the locals other than `stash`, so two runs that differ only in the
\* stash count reported return prompts that differ only in the stash field; every
\* variant carries the stash count unchanged from the header.
C18_StashDoesNotInterfere ==
    /\ [](ReturnedPrompt => (result.val.stash = stash /\ ClassifiedWithoutStash(result.val)))
    /\ [][stash' # stash
            => /\ pc = "lines" /\ pc' = pc
               /\ UNCHANGED <<is_repo, commit, local, remote, ahead, behind, counts, later,
                              result, seen>>]_vars

C18_Witness ==
    /\ ReturnedPrompt /\ stash = 1 /\ result.val.stash = 1
    /\ result.val.variant = "Conflicted"
    /\ any(working_tree)

====
